---------------------------- MODULE Spec2Model ----------------------------
(***************************************************************************)
(* A model of the ray tracer's math kernel and canvas:                     *)
(*   - src/src/canvas.rs   Canvas (create_canvas, write_pixel, read_pixel, *)
(*                         to_ppm, to_ppm_str)                             *)
(*   - src/src/math.rs     float_eq, FLOAT_EQ_EPS                          *)
(*   - src/src/math/*.rs   Matrix2, Matrix3, Matrix4                       *)
(*                                                                         *)
(* f64 values are modelled as exact rationals [n |-> numerator,            *)
(* d |-> denominator > 0] in lowest terms.  For the bounded inputs used    *)
(* here every f64 sum and product is far from the rounding thresholds the  *)
(* code tests (x.5 for round(), 1e-5 for float_eq), so the exact value     *)
(* decides every comparison the same way the f64 value does.               *)
(*                                                                         *)
(* A Rust String is modelled as a sequence of one-character strings.       *)
(***************************************************************************)
EXTENDS Integers, Sequences, FiniteSets, TLC

VARIABLES
    canvas,     \* the Canvas value: [width, height, data]
    created,    \* the arguments create_canvas was called with
    last,       \* the most recent call on the canvas and what it returned
    enc,        \* position and locals of to_ppm_str's pixel loop
    mat,        \* the Matrix4 under construction
    nsets,      \* how many cells of mat were assigned since it was built
    mres,       \* the most recent matrix operation and its result
    tup         \* the most recent Tuple4D operation, its operands and its result

vars == <<canvas, created, last, enc, mat, nsets, mres, tup>>

-----------------------------------------------------------------------------
(* Bounds of the model *)

MaxWidth == 6
MaxHeight == 2
MaxCells == 6

-----------------------------------------------------------------------------
(* f64 as exact rationals *)

Abs(a) == IF a < 0 THEN -a ELSE a

RECURSIVE Gcd(_, _)
Gcd(a, b) == IF b = 0 THEN a ELSE Gcd(b, a % b)

\* the rational n/d in lowest terms with a positive denominator (d # 0)
Rat(n, d) ==
    LET g == Gcd(Abs(n), Abs(d))
        s == IF d < 0 THEN -1 ELSE 1
    IN  [n |-> s * (n \div g), d |-> s * (d \div g)]

RInt(k) == [n |-> k, d |-> 1]

\* f64 multiplication; cross-cancelled first so intermediate products stay small
RMul(a, b) ==
    LET g1 == Gcd(Abs(a.n), b.d)
        g2 == Gcd(Abs(b.n), a.d)
    IN  IF a.n = 0 \/ b.n = 0 THEN RInt(0)
        ELSE [n |-> (a.n \div g1) * (b.n \div g2), d |-> (a.d \div g2) * (b.d \div g1)]

\* f64::round: to the nearest integer, ties away from zero
Round(q) ==
    IF q.n >= 0 THEN (2 * q.n + q.d) \div (2 * q.d)
    ELSE -((2 * (-q.n) + q.d) \div (2 * q.d))

\* f64::clamp on the rounded value
Clamp(v, lo, hi) == IF v < lo THEN lo ELSE IF v > hi THEN hi ELSE v

-----------------------------------------------------------------------------
(* f64 arithmetic and float_eq (src/src/math.rs) *)

RNeg(a) == [n |-> -a.n, d |-> a.d]

RAbs(a) == [n |-> Abs(a.n), d |-> a.d]

\* f64 addition, over the least common denominator
RAdd(a, b) ==
    LET g == Gcd(a.d, b.d)
        l == (a.d \div g) * b.d
    IN  IF a.n = 0 THEN b
        ELSE IF b.n = 0 THEN a
        ELSE Rat(a.n * (l \div a.d) + b.n * (l \div b.d), l)

RSub(a, b) == RAdd(a, RNeg(b))

\* f64 division by a non-zero divisor (the model never divides by zero:
\* inverse divides only by a determinant that is not tolerance-equal to 0)
RDiv(a, b) == RMul(a, [n |-> IF b.n < 0 THEN -b.d ELSE b.d, d |-> Abs(b.n)])

\* a < b: by the integer parts, and by the fractions where those agree
RLt(a, b) ==
    LET fa == a.n \div a.d
        fb == b.n \div b.d
    IN  IF fa # fb THEN fa < fb
        ELSE (a.n % a.d) * b.d < (b.n % b.d) * a.d

FLOAT_EQ_EPS == Rat(1, 100000)

\* float_eq comparing exactly, the tolerance ignored
float_eq_Exact(a, b, eps) == a = b

float_eq(a, b, eps) == RLt(RAbs(RSub(a, b)), eps)

-----------------------------------------------------------------------------
(* Matrix2, Matrix3, Matrix4: data[row][col], rows and columns from 0 *)

Matrix2_zeros == [i \in 0..1 |-> [j \in 0..1 |-> RInt(0)]]

Matrix3_zeros == [i \in 0..2 |-> [j \in 0..2 |-> RInt(0)]]

Matrix4_zeros == [i \in 0..3 |-> [j \in 0..3 |-> RInt(0)]]

Matrix4_eye ==
    [Matrix4_zeros EXCEPT ![0][0] = RInt(1), ![1][1] = RInt(1),
                          ![2][2] = RInt(1), ![3][3] = RInt(1)]

\* PartialEq for Matrix4: every cell float_eq
Matrix4_eq(a, b) ==
    \A i \in 0..3 : \A j \in 0..3 : float_eq(a[i][j], b[i][j], FLOAT_EQ_EPS)

\* the product reading rhs by rows: res[[i, j]] += self[[i, k]] * rhs[[j, k]]
Matrix4_mul_RowsOfRhs(a, b) ==
    [i \in 0..3 |-> [j \in 0..3 |->
        RAdd(RAdd(RAdd(RAdd(RInt(0), RMul(a[i][0], b[j][0])),
                       RMul(a[i][1], b[j][1])),
                  RMul(a[i][2], b[j][2])),
             RMul(a[i][3], b[j][3]))]]

\* Mul for Matrix4: res[[i, j]] += self[[i, k]] * rhs[[k, j]] for k = 0..3
Matrix4_mul(a, b) ==
    [i \in 0..3 |-> [j \in 0..3 |->
        RAdd(RAdd(RAdd(RAdd(RInt(0), RMul(a[i][0], b[0][j])),
                       RMul(a[i][1], b[1][j])),
                  RMul(a[i][2], b[2][j])),
             RMul(a[i][3], b[3][j]))]]

\* transpose assigning the cells on and above the diagonal only
Matrix4_transpose_UpperOnly(m) ==
    [i \in 0..3 |-> [j \in 0..3 |-> IF i <= j THEN m[j][i] ELSE Matrix4_zeros[i][j]]]

\* transposed_matrix[[i, j]] = self[[j, i]] for i, j = 0..3
Matrix4_transpose(m) == [i \in 0..3 |-> [j \in 0..3 |-> m[j][i]]]

\* new_i counting every row the outer loop has passed, the skipped one included
Copied_CountsSkipped(i, skipped) == i

\* the counter new_i (new_j) of submatrix when its loop reaches row (column) i:
\* it starts at 0 and is incremented once for every row before i that was not
\* skipped by `continue`; new_j is reset to 0 after every copied row
Copied(i, skipped) == Cardinality({k \in 0..(i - 1) : k # skipped})

\* the rows (columns) i of 0..hi that the loop copies while its counter is n
Sources(n, skipped, hi) == {i \in 0..hi : i # skipped /\ Copied(i, skipped) = n}

Matrix2_determinant(m) == RSub(RMul(m[0][0], m[1][1]), RMul(m[0][1], m[1][0]))

\* sub_matr[[new_i, new_j]] = self[[i, j]] for every i # row and j # col; a cell
\* the loop never assigns keeps the 0.0 of Matrix2::zeros()
Matrix3_submatrix(m, row, col) ==
    [new_i \in 0..1 |-> [new_j \in 0..1 |->
        LET is == Sources(new_i, row, 2)
            js == Sources(new_j, col, 2)
        IN  IF is = {} \/ js = {} THEN Matrix2_zeros[new_i][new_j]
            ELSE m[CHOOSE i \in is : TRUE][CHOOSE j \in js : TRUE]]]

Matrix3_minor(m, row, col) == Matrix2_determinant(Matrix3_submatrix(m, row, col))

Matrix3_cofactor(m, row, col) ==
    LET minor == Matrix3_minor(m, row, col)
    IN  IF (row + col) % 2 # 0 THEN RNeg(minor) ELSE minor

Matrix3_determinant(m) ==
    RAdd(RAdd(RMul(Matrix3_cofactor(m, 0, 0), m[0][0]),
              RMul(Matrix3_cofactor(m, 0, 1), m[0][1])),
         RMul(Matrix3_cofactor(m, 0, 2), m[0][2]))

\* as Matrix3::submatrix, from 4x4 to 3x3
Matrix4_submatrix(m, row, col) ==
    [new_i \in 0..2 |-> [new_j \in 0..2 |->
        LET is == Sources(new_i, row, 3)
            js == Sources(new_j, col, 3)
        IN  IF is = {} \/ js = {} THEN Matrix3_zeros[new_i][new_j]
            ELSE m[CHOOSE i \in is : TRUE][CHOOSE j \in js : TRUE]]]

Matrix4_minor(m, row, col) == Matrix3_determinant(Matrix4_submatrix(m, row, col))

\* cofactor without the sign rule: the minor is never negated
Matrix4_cofactor_NoSign(m, row, col) == Matrix4_minor(m, row, col)

Matrix4_cofactor(m, row, col) ==
    LET minor == Matrix4_minor(m, row, col)
    IN  IF (row + col) % 2 # 0 THEN RNeg(minor) ELSE minor

Matrix4_determinant(m) ==
    RAdd(RAdd(RAdd(RMul(Matrix4_cofactor(m, 0, 0), m[0][0]),
                   RMul(Matrix4_cofactor(m, 0, 1), m[0][1])),
              RMul(Matrix4_cofactor(m, 0, 2), m[0][2])),
         RMul(Matrix4_cofactor(m, 0, 3), m[0][3]))

\* inverse writing cofactor(i, j) / det to [i][j]: the adjugate not transposed
Matrix4_inverse_NoTranspose(m) ==
    LET det == Matrix4_determinant(m)
    IN  IF float_eq(det, RInt(0), FLOAT_EQ_EPS)
        THEN [present |-> FALSE, value |-> Matrix4_zeros]
        ELSE [present |-> TRUE,
              value |-> [i \in 0..3 |-> [j \in 0..3 |->
                            RDiv(Matrix4_cofactor(m, i, j), det)]]]

\* inverse testing the determinant for exact equality with 0.0
Matrix4_inverse_ExactZeroTest(m) ==
    LET det == Matrix4_determinant(m)
    IN  IF det.n = 0
        THEN [present |-> FALSE, value |-> Matrix4_zeros]
        ELSE [present |-> TRUE,
              value |-> [a \in 0..3 |-> [b \in 0..3 |->
                            RDiv(Matrix4_cofactor(m, b, a), det)]]]

\* Option<Matrix4>: [present, value]; None is present = FALSE.
\* inverse[[j, i]] = cofactor(i, j) / det, so cell [a][b] holds cofactor(b, a) / det
Matrix4_inverse(m) ==
    LET det == Matrix4_determinant(m)
    IN  IF float_eq(det, RInt(0), FLOAT_EQ_EPS)
        THEN [present |-> FALSE, value |-> Matrix4_zeros]
        ELSE [present |-> TRUE,
              value |-> [a \in 0..3 |-> [b \in 0..3 |->
                            RDiv(Matrix4_cofactor(m, b, a), det)]]]

MatIdle == [op |-> "none", present |-> FALSE, value |-> Matrix4_zeros]

-----------------------------------------------------------------------------
(* Tuple4D (src/src/math/tuple.rs) *)

Tuple4D(x, y, z, w) == [x |-> x, y |-> y, z |-> z, w |-> w]

\* new_point leaving w at 0.0
new_point_ZeroW(x, y, z) == Tuple4D(x, y, z, RInt(0))

new_point(x, y, z) == Tuple4D(x, y, z, RInt(1))

new_vector(x, y, z) == Tuple4D(x, y, z, RInt(0))

is_vector(t) == float_eq(t.w, RInt(0), FLOAT_EQ_EPS)

is_point(t) == float_eq(t.w, RInt(1), FLOAT_EQ_EPS)

\* PartialEq for Tuple4D: the four components float_eq
Tuple4D_eq(a, b) ==
    /\ float_eq(a.x, b.x, FLOAT_EQ_EPS)
    /\ float_eq(a.y, b.y, FLOAT_EQ_EPS)
    /\ float_eq(a.z, b.z, FLOAT_EQ_EPS)
    /\ float_eq(a.w, b.w, FLOAT_EQ_EPS)

\* dot guarding only its left operand
dot_ChecksSelfOnly(a, b) ==
    IF ~is_vector(a)
    THEN [panic |-> TRUE, value |-> RInt(0)]
    ELSE [panic |-> FALSE,
          value |-> RAdd(RAdd(RMul(a.x, b.x), RMul(a.y, b.y)), RMul(a.z, b.z))]

\* dot: [panic, value]; panics unless both operands are vectors
dot(a, b) ==
    IF ~is_vector(a) \/ ~is_vector(b)
    THEN [panic |-> TRUE, value |-> RInt(0)]
    ELSE [panic |-> FALSE,
          value |-> RAdd(RAdd(RMul(a.x, b.x), RMul(a.y, b.y)), RMul(a.z, b.z))]

\* cross: [panic, value]; panics unless both operands are vectors
cross(a, b) ==
    IF ~is_vector(a) \/ ~is_vector(b)
    THEN [panic |-> TRUE, value |-> new_vector(RInt(0), RInt(0), RInt(0))]
    ELSE [panic |-> FALSE,
          value |-> new_vector(RSub(RMul(a.y, b.z), RMul(a.z, b.y)),
                               RSub(RMul(a.z, b.x), RMul(a.x, b.z)),
                               RSub(RMul(a.x, b.y), RMul(a.y, b.x)))]

Tuple4D_add(a, b) ==
    Tuple4D(RAdd(a.x, b.x), RAdd(a.y, b.y), RAdd(a.z, b.z), RAdd(a.w, b.w))

\* subtraction that leaves w out: the result takes the left operand's w
Tuple4D_sub_KeepsW(a, b) ==
    Tuple4D(RSub(a.x, b.x), RSub(a.y, b.y), RSub(a.z, b.z), a.w)

Tuple4D_sub(a, b) ==
    Tuple4D(RSub(a.x, b.x), RSub(a.y, b.y), RSub(a.z, b.z), RSub(a.w, b.w))

Tuple4D_neg(a) == Tuple4D(RNeg(a.x), RNeg(a.y), RNeg(a.z), RNeg(a.w))

\* Mul<f64> for Tuple4D
Tuple4D_mul(a, rhs) ==
    Tuple4D(RMul(a.x, rhs), RMul(a.y, rhs), RMul(a.z, rhs), RMul(a.w, rhs))

\* Div<f64> for Tuple4D, for a divisor that is not 0.0
Tuple4D_div(a, rhs) ==
    Tuple4D(RDiv(a.x, rhs), RDiv(a.y, rhs), RDiv(a.z, rhs), RDiv(a.w, rhs))

\* Tuple4D::zeros(), the start value of the product's result
Tuple4D_zeros == Tuple4D(RInt(0), RInt(0), RInt(0), RInt(0))

\* Index<usize> for Tuple4D: the components in the order x, y, z, w
Tuple4D_index(t, i) ==
    IF i = 0 THEN t.x ELSE IF i = 1 THEN t.y ELSE IF i = 2 THEN t.z ELSE t.w

\* IndexMut<usize> for Tuple4D: t[i] = v
Tuple4D_index_mut(t, i, v) ==
    IF i = 0 THEN [t EXCEPT !.x = v]
    ELSE IF i = 1 THEN [t EXCEPT !.y = v]
    ELSE IF i = 2 THEN [t EXCEPT !.z = v]
    ELSE [t EXCEPT !.w = v]

\* the product leaving the tuple's w slot out of every sum
Matrix4_mul_tuple_DropsW(m, rhs) ==
    LET cell(i) ==
            RAdd(RAdd(RMul(m[i][0], Tuple4D_index(rhs, 0)),
                      RMul(m[i][1], Tuple4D_index(rhs, 1))),
                 RMul(m[i][2], Tuple4D_index(rhs, 2)))
    IN  Tuple4D_index_mut(Tuple4D_index_mut(Tuple4D_index_mut(Tuple4D_index_mut(
            Tuple4D_zeros, 0, cell(0)), 1, cell(1)), 2, cell(2)), 3, cell(3))

\* Mul<Tuple4D> for Matrix4: res[i] = the sum of self[[i, j]] * rhs[j], i = 0..3
Matrix4_mul_tuple(m, rhs) ==
    LET cell(i) ==
            RAdd(RAdd(RAdd(RMul(m[i][0], Tuple4D_index(rhs, 0)),
                           RMul(m[i][1], Tuple4D_index(rhs, 1))),
                      RMul(m[i][2], Tuple4D_index(rhs, 2))),
                 RMul(m[i][3], Tuple4D_index(rhs, 3)))
    IN  Tuple4D_index_mut(Tuple4D_index_mut(Tuple4D_index_mut(Tuple4D_index_mut(
            Tuple4D_zeros, 0, cell(0)), 1, cell(1)), 2, cell(2)), 3, cell(3))

\* a Tuple4D operation: its name, the operands (a tuple a, and a tuple b, a
\* scalar k or a matrix m; for a constructor a holds the arguments x, y, z), how
\* it ended, and the tuple or the number returned
TupCall(op, a, b, k, m, outcome, value, scalar, nops) ==
    [op |-> op, a |-> a, b |-> b, k |-> k, m |-> m, outcome |-> outcome,
     value |-> value, scalar |-> scalar, nops |-> nops]

TupIdle ==
    TupCall("none", Tuple4D_zeros, Tuple4D_zeros, RInt(0), Matrix4_zeros, "ok",
            Tuple4D_zeros, RInt(0), 0)

-----------------------------------------------------------------------------
(* Color *)

Color(r, g, b) == [r |-> r, g |-> g, b |-> b]

Black == Color(RInt(0), RInt(0), RInt(0))

\* the colors write_pixel is called with: Color(1.5, 0.8, 1.0) encodes to three
\* three-digit bytes, Color(-0.5, 0.5, 0.2) to a one-, a three- and a two-digit byte
Palette == { Color(Rat(3, 2), Rat(4, 5), RInt(1)),
             Color(Rat(-1, 2), Rat(1, 2), Rat(1, 5)) }

-----------------------------------------------------------------------------
(* Canvas: create_canvas, write_pixel, read_pixel *)

create_canvas(width, height) ==
    [width |-> width, height |-> height,
     data |-> [i \in 1..(width * height) |-> Black]]

\* write_pixel with the row stride taken from the argument instead of the canvas
write_pixel_ArgStride(c, width, height, color) ==
    LET idx == width * height
    IN  IF idx + width >= Len(c.data)
        THEN [panic |-> TRUE, canvas |-> c]
        ELSE [panic |-> FALSE, canvas |-> [c EXCEPT !.data[idx + width + 1] = color]]

\* write_pixel inserting the color at the index instead of overwriting the cell
write_pixel_Inserts(c, width, height, color) ==
    LET idx == c.width * height
        at == idx + width
    IN  IF at > Len(c.data)
        THEN [panic |-> TRUE, canvas |-> c]
        ELSE [panic |-> FALSE,
              canvas |-> [c EXCEPT !.data = SubSeq(c.data, 1, at) \o <<color>>
                                               \o SubSeq(c.data, at + 1, Len(c.data))]]

\* data[idx + width] = color, a bounds-checked Vec index (0-based in the code)
write_pixel(c, width, height, color) ==
    LET idx == c.width * height
    IN  IF idx + width >= Len(c.data)
        THEN [panic |-> TRUE, canvas |-> c]
        ELSE [panic |-> FALSE, canvas |-> [c EXCEPT !.data[idx + width + 1] = color]]

read_pixel(c, width, height) ==
    LET idx == c.width * height
    IN  IF idx + width >= Len(c.data)
        THEN [panic |-> TRUE, value |-> Black]
        ELSE [panic |-> FALSE, value |-> c.data[idx + width + 1]]

-----------------------------------------------------------------------------
(* Canvas::to_ppm_str *)

NL == "\n"
SP == " "

DigitChars == <<"0", "1", "2", "3", "4", "5", "6", "7", "8", "9">>

\* Display for usize / u8: the decimal digits, most significant first
RECURSIVE DecStr(_)
DecStr(v) ==
    IF v < 10 THEN <<DigitChars[v + 1]>>
    ELSE Append(DecStr(v \div 10), DigitChars[(v % 10) + 1])

\* String::pop: drops the last character, if there is one
Pop(s) == IF Len(s) = 0 THEN s ELSE SubSeq(s, 1, Len(s) - 1)

\* the conversion without .round(): `as u8` truncates toward zero
ChannelByte_Truncates(ch) ==
    LET q == RMul(ch, RInt(255))
    IN  Clamp(IF q.n >= 0 THEN q.n \div q.d ELSE -((-q.n) \div q.d), 0, 255)

\* (channel * 255.0).round().clamp(0.0, 255.0) as u8
ChannelByte(ch) == Clamp(Round(RMul(ch, RInt(255))), 0, 255)

ColorValues(color) == <<ChannelByte(color.r), ChannelByte(color.g), ChannelByte(color.b)>>

\* the three writeln! of the header
PpmHeader(c) ==
    <<"P", "3", NL>> \o DecStr(c.width) \o <<SP>> \o DecStr(c.height) \o <<NL>>
        \o <<"2", "5", "5", NL>>

\* the cost of a token without the 1 char for ' ' or '\n'
CharsToBeAdded_NoSeparator(value) == IF value <= 9 THEN 1 ELSE IF value <= 99 THEN 2 ELSE 3

CharsToBeAdded(value) == (IF value <= 9 THEN 1 ELSE IF value <= 99 THEN 2 ELSE 3) + 1

\* the wrap test without the cost of the token about to be written
MustWrap_IgnoresCost(chars_written, chars_to_be_added) == chars_written > 70

\* the wrap test of the inner loop
MustWrap(chars_written, chars_to_be_added) == chars_written + chars_to_be_added > 70

\* the inner loop starting the new line's count at zero after a wrap
EncodeValue_ResetsToZero(st, value) ==
    LET chars_to_be_added == CharsToBeAdded(value)
        wrap == MustWrap(st.chars_written, chars_to_be_added)
        s1 == IF wrap THEN Append(Pop(st.ppm_str), NL) ELSE st.ppm_str
    IN  [ppm_str |-> s1 \o DecStr(value) \o <<SP>>,
         chars_written |-> IF wrap THEN 0
                           ELSE st.chars_written + chars_to_be_added]

\* one iteration of `for value in color_values`; st = [ppm_str, chars_written]
EncodeValue(st, value) ==
    LET chars_to_be_added == CharsToBeAdded(value)
        wrap == MustWrap(st.chars_written, chars_to_be_added)
        s1 == IF wrap THEN Append(Pop(st.ppm_str), NL) ELSE st.ppm_str
    IN  [ppm_str |-> s1 \o DecStr(value) \o <<SP>>,
         chars_written |-> IF wrap THEN chars_to_be_added
                           ELSE st.chars_written + chars_to_be_added]

\* the row-end test on the index of the pixel just written instead of the next
IsRowEnd_OffByOne(idx, width) == idx % width = 0

\* `if (idx + 1) % self.width == 0` after a pixel's three values (idx 0-based)
IsRowEnd(idx, width) == (idx + 1) % width = 0

\* the row end breaking the line without resetting the running count
RowEnd_KeepsCount(st, idx, width) ==
    IF IsRowEnd(idx, width)
    THEN [ppm_str |-> Append(Pop(st.ppm_str), NL), chars_written |-> st.chars_written]
    ELSE st

RowEnd(st, idx, width) ==
    IF IsRowEnd(idx, width)
    THEN [ppm_str |-> Append(Pop(st.ppm_str), NL), chars_written |-> 0]
    ELSE st

\* one iteration of `for (idx, color) in self.data.iter().enumerate()`
EncodePixel(st, idx, color, width) ==
    LET v == ColorValues(color)
    IN  RowEnd(EncodeValue(EncodeValue(EncodeValue(st, v[1]), v[2]), v[3]), idx, width)

\* the loop from pixel idx on; `next` is the state after pixel idx, bound
\* through a set so that it is a value before the loop goes on
RECURSIVE EncodeFrom(_, _, _)
EncodeFrom(st, idx, c) ==
    IF idx >= Len(c.data) THEN st
    ELSE CHOOSE r \in { EncodeFrom(next, idx + 1, c) :
                          next \in {EncodePixel(st, idx, c.data[idx + 1], c.width)} } :
             TRUE

EncStart(c) == [ppm_str |-> PpmHeader(c), chars_written |-> 0]

to_ppm_str(c) == EncodeFrom(EncStart(c), 0, c).ppm_str

-----------------------------------------------------------------------------
(* Canvas::to_ppm *)

\* Where the export can fail: File::create, writer.write_all, writer.flush.
\* (to_ppm_str's own Err branch is never taken: writing integers into a String
\* cannot fail.)
FailPoints == {"none", "create", "write_all", "flush"}

Prefix(s, k) == SubSeq(s, 1, k)

\* What reached the file when a write or flush failed part-way: nothing or the
\* first half of the text.
PartialWrites(text) == {Prefix(text, 0), Prefix(text, Len(text) \div 2)}

\* to_ppm ignoring the result of writer.flush()
to_ppm_IgnoresFlush(c, fail) ==
    LET ppm_str == to_ppm_str(c)
    IN  IF fail = "create"
        THEN {[outcome |-> "err", file_state |-> "untouched", file |-> <<>>]}
        ELSE IF fail = "write_all"
        THEN {[outcome |-> "err", file_state |-> "created", file |-> w] :
                 w \in PartialWrites(ppm_str)}
        ELSE IF fail = "flush"
        THEN {[outcome |-> "ok", file_state |-> "created", file |-> w] :
                 w \in PartialWrites(ppm_str)}
        ELSE {[outcome |-> "ok", file_state |-> "created", file |-> ppm_str]}

\* The outcomes of to_ppm(filename) when the environment fails at `fail`:
\* [outcome, file_state, file], the file as the call leaves it.
to_ppm(c, fail) ==
    LET ppm_str == to_ppm_str(c)
    IN  IF fail = "create"
        THEN {[outcome |-> "err", file_state |-> "untouched", file |-> <<>>]}
        ELSE IF fail \in {"write_all", "flush"}
        THEN {[outcome |-> "err", file_state |-> "created", file |-> w] :
                 w \in PartialWrites(ppm_str)}
        ELSE {[outcome |-> "ok", file_state |-> "created", file |-> ppm_str]}

-----------------------------------------------------------------------------
(* The canvas as a state machine: one action per public operation *)

Call(op, x, y, color, outcome, value, text, file_state, file) ==
    [op |-> op, x |-> x, y |-> y, color |-> color, outcome |-> outcome,
     value |-> value, text |-> text, file_state |-> file_state, file |-> file]

EncIdle == [pc |-> "idle", idx |-> 0, ch |-> 0, ppm_str |-> <<>>, chars_written |-> 0]

\* the coordinates the model calls write_pixel / read_pixel with: every in-range
\* one and those one past the last column or row
Xs == 0..canvas.width
Ys == 0..canvas.height

InRange(x, y) == x < canvas.width /\ y < canvas.height

Running == last.outcome # "panic"

Init ==
    /\ \E width \in 0..MaxWidth, height \in 0..MaxHeight :
          /\ width * height <= MaxCells
          /\ canvas = create_canvas(width, height)
          /\ created = [width |-> width, height |-> height]
          /\ last = Call("create_canvas", width, height, Black, "ok", Black,
                         <<>>, "untouched", <<>>)
    /\ enc = EncIdle
    /\ mat = Matrix4_zeros
    /\ nsets = 0
    /\ mres = MatIdle
    /\ tup = TupIdle

WritePixel ==
    /\ Running
    /\ \E x \in Xs, y \in Ys, color \in Palette :
          LET res == write_pixel(canvas, x, y, color)
          IN  /\ canvas' = res.canvas
              /\ last' = Call("write_pixel", x, y, color,
                              IF res.panic THEN "panic" ELSE "ok", Black,
                              <<>>, "untouched", <<>>)
    /\ UNCHANGED <<created, enc, mat, nsets, mres, tup>>

ReadPixel ==
    /\ Running
    /\ \E x \in Xs, y \in Ys :
          LET res == read_pixel(canvas, x, y)
          IN  last' = Call("read_pixel", x, y, Black,
                           IF res.panic THEN "panic" ELSE "ok", res.value,
                           <<>>, "untouched", <<>>)
    /\ UNCHANGED <<canvas, created, enc, mat, nsets, mres, tup>>

ToPpmStr ==
    /\ Running
    /\ last' = Call("to_ppm_str", 0, 0, Black, "ok", Black, to_ppm_str(canvas),
                    "untouched", <<>>)
    /\ UNCHANGED <<canvas, created, enc, mat, nsets, mres, tup>>

ToPpm ==
    /\ Running
    /\ \E fail \in FailPoints :
          \E res \in to_ppm(canvas, fail) :
             last' = Call("to_ppm", 0, 0, Black, res.outcome, Black, <<>>,
                          res.file_state, res.file)
    /\ UNCHANGED <<canvas, created, enc, mat, nsets, mres, tup>>

Next == WritePixel \/ ReadPixel \/ ToPpmStr \/ ToPpm

Spec == Init /\ [][Next]_vars

-----------------------------------------------------------------------------
(* to_ppm_str's pixel loop, one loop iteration per step.  SpecEnc starts     *)
(* the encoder on a canvas filled by write_pixel calls and steps through     *)
(* the inner `for value in color_values` loop and the row-end test.          *)

MaxEncWidth == 10
MaxEncHeight == 2

\* create_canvas(width, height), then the first k cells (row-major) written
\* with c1 and the others with c2
Filled(width, height, k, c1, c2) ==
    [width |-> width, height |-> height,
     data |-> [i \in 1..(width * height) |-> IF i <= k THEN c1 ELSE c2]]

EncCanvases ==
    { Filled(width, height, k, c1, c2) :
        width \in 0..MaxEncWidth, height \in 0..MaxEncHeight,
        k \in 0..(MaxEncWidth * MaxEncHeight),
        c1 \in Palette \cup {Black}, c2 \in Palette \cup {Black} }

\* the value the inner loop is about to write
EncValueNow == ColorValues(canvas.data[enc.idx + 1])[enc.ch + 1]

EncLocals == [ppm_str |-> enc.ppm_str, chars_written |-> enc.chars_written]

InitEnc ==
    /\ canvas \in EncCanvases
    /\ created = [width |-> canvas.width, height |-> canvas.height]
    /\ last = Call("to_ppm_str", 0, 0, Black, "running", Black, <<>>, "untouched", <<>>)
    /\ enc = [pc |-> IF Len(canvas.data) = 0 THEN "return" ELSE "value",
              idx |-> 0, ch |-> 0,
              ppm_str |-> EncStart(canvas).ppm_str,
              chars_written |-> EncStart(canvas).chars_written]
    /\ mat = Matrix4_zeros
    /\ nsets = 0
    /\ mres = MatIdle
    /\ tup = TupIdle

\* lines 66-82: one value of the current pixel
EncValue ==
    /\ enc.pc = "value"
    /\ LET st == EncodeValue(EncLocals, EncValueNow)
       IN  enc' = [pc |-> IF enc.ch = 2 THEN "row_end" ELSE "value",
                   idx |-> enc.idx,
                   ch |-> IF enc.ch = 2 THEN 0 ELSE enc.ch + 1,
                   ppm_str |-> st.ppm_str,
                   chars_written |-> st.chars_written]
    /\ UNCHANGED <<canvas, created, last, mat, nsets, mres, tup>>

\* lines 84-88: the row-end test that closes the pixel's iteration
EncRowEnd ==
    /\ enc.pc = "row_end"
    /\ LET st == RowEnd(EncLocals, enc.idx, canvas.width)
       IN  enc' = [pc |-> IF enc.idx + 1 < Len(canvas.data) THEN "value" ELSE "return",
                   idx |-> enc.idx + 1,
                   ch |-> 0,
                   ppm_str |-> st.ppm_str,
                   chars_written |-> st.chars_written]
    /\ UNCHANGED <<canvas, created, last, mat, nsets, mres, tup>>

\* line 90: Ok(ppm_str)
EncReturn ==
    /\ enc.pc = "return"
    /\ enc' = [enc EXCEPT !.pc = "done"]
    /\ last' = Call("to_ppm_str", 0, 0, Black, "ok", Black, enc.ppm_str, "untouched", <<>>)
    /\ UNCHANGED <<canvas, created, mat, nsets, mres, tup>>

NextEnc == EncValue \/ EncRowEnd \/ EncReturn

SpecEnc == InitEnc /\ [][NextEnc]_vars

\* the stepped loop returns what the whole function returns
EncAgrees == enc.pc = "done" => last.text = to_ppm_str(canvas)

-----------------------------------------------------------------------------
(* Matrix4 as a state machine: a matrix is built (zeros, eye, or cell by     *)
(* cell as the tests build theirs), cells are assigned through IndexMut, and *)
(* inverse is called on it.                                                  *)

MaxSets == 1

FromRows(rows) == [i \in 0..3 |-> [j \in 0..3 |-> RInt(rows[i + 1][j + 1])]]

\* tests::non_invertible
TestNonInvertible ==
    FromRows(<< <<-4, 2, -2, -3>>, <<9, 6, 2, 6>>, <<0, -5, 1, -5>>, <<0, 0, 0, 0>> >>)

\* tests::inverse
TestInverse ==
    FromRows(<< <<-5, 2, 6, -8>>, <<1, -5, 1, 8>>, <<7, 7, -6, -7>>, <<1, -3, 7, 4>> >>)

\* tests::inverse_multiplication, matrix and matrix2
TestMulA ==
    FromRows(<< <<3, -9, 7, 3>>, <<3, -8, 2, -9>>, <<-4, 4, 4, 1>>, <<-6, 5, -1, 1>> >>)

TestMulB ==
    FromRows(<< <<-2, 1, 2, 3>>, <<3, 2, 1, -1>>, <<4, 3, 6, 5>>, <<1, 2, 7, 8>> >>)

\* tests::determinant
TestDeterminant ==
    FromRows(<< <<-2, -8, 3, 5>>, <<-3, 1, 7, 3>>, <<1, 2, -9, 6>>, <<-6, 7, 7, -9>> >>)

\* tests::matrix_mult, matrix
TestMatrixMult ==
    FromRows(<< <<1, 2, 3, 4>>, <<5, 6, 7, 8>>, <<9, 8, 7, 6>>, <<5, 4, 3, 2>> >>)

\* Matrix4::zeros() with 0.05 assigned to the four diagonal cells
SmallDiagonal ==
    [Matrix4_zeros EXCEPT ![0][0] = Rat(1, 20), ![1][1] = Rat(1, 20),
                          ![2][2] = Rat(1, 20), ![3][3] = Rat(1, 20)]

\* Matrix4::zeros() with 20.0 assigned to the four diagonal cells
LargeDiagonal ==
    [Matrix4_zeros EXCEPT ![0][0] = RInt(20), ![1][1] = RInt(20),
                          ![2][2] = RInt(20), ![3][3] = RInt(20)]

BuiltMatrices ==
    {Matrix4_zeros, Matrix4_eye, TestNonInvertible, TestInverse, TestMulA, TestMulB,
     TestDeterminant, SmallDiagonal, LargeDiagonal}

\* the values IndexMut assigns
CellValues == {RInt(0), Rat(3, 2)}

InitMat ==
    /\ mat \in BuiltMatrices
    /\ nsets = 0
    /\ mres = MatIdle
    /\ tup = TupIdle
    /\ canvas = create_canvas(0, 0)
    /\ created = [width |-> 0, height |-> 0]
    /\ last = Call("create_canvas", 0, 0, Black, "ok", Black, <<>>, "untouched", <<>>)
    /\ enc = EncIdle

\* matrix[[i, j]] = v
IndexMut ==
    /\ nsets < MaxSets
    /\ \E i \in 0..3, j \in 0..3, v \in CellValues :
          mat' = [mat EXCEPT ![i][j] = v]
    /\ nsets' = nsets + 1
    /\ mres' = [op |-> "index_mut", present |-> FALSE, value |-> Matrix4_zeros]
    /\ UNCHANGED <<canvas, created, last, enc, tup>>

\* matrix.inverse()
Inverse ==
    /\ LET res == Matrix4_inverse(mat)
       IN  mres' = [op |-> "inverse", present |-> res.present, value |-> res.value]
    /\ UNCHANGED <<canvas, created, last, enc, mat, nsets, tup>>

\* matrix.inverse().unwrap().inverse(): inverse called on the matrix that the
\* call before returned
InverseOfInverse ==
    /\ mres.op = "inverse"
    /\ mres.present
    /\ LET res == Matrix4_inverse(mres.value)
       IN  mres' = [op |-> "inverse_inverse", present |-> res.present,
                    value |-> res.value]
    /\ UNCHANGED <<canvas, created, last, enc, mat, nsets, tup>>

NextMat == IndexMut \/ Inverse \/ InverseOfInverse

SpecMat == InitMat /\ [][NextMat]_vars

-----------------------------------------------------------------------------
(* Transposition and the matrix product.                                     *)

InitOps ==
    /\ mat \in BuiltMatrices \cup {TestMatrixMult}
    /\ nsets = 0
    /\ mres = MatIdle
    /\ tup = TupIdle
    /\ canvas = create_canvas(0, 0)
    /\ created = [width |-> 0, height |-> 0]
    /\ last = Call("create_canvas", 0, 0, Black, "ok", Black, <<>>, "untouched", <<>>)
    /\ enc = EncIdle

\* matrix.transpose()
Transpose ==
    /\ mres' = [op |-> "transpose", present |-> TRUE, src |-> mat,
                value |-> Matrix4_transpose(mat)]
    /\ UNCHANGED <<canvas, created, last, enc, mat, nsets, tup>>

\* the right operands of matrix * rhs
MulOperands == {Matrix4_eye, TestMulB, TestMulA}

\* matrix * rhs
Mul ==
    /\ \E rhs \in MulOperands :
          mres' = [op |-> "mul", present |-> TRUE, src |-> mat, rhs |-> rhs,
                   value |-> Matrix4_mul(mat, rhs)]
    /\ UNCHANGED <<canvas, created, last, enc, mat, nsets, tup>>

NextOps == IndexMut \/ Transpose \/ Mul

SpecOps == InitOps /\ [][NextOps]_vars

-----------------------------------------------------------------------------
(* Determinants and submatrices of the built matrices, of their 3x3          *)
(* submatrices and of the 2x2 submatrices of those.                          *)

\* matrix.submatrix(row, col), a Matrix3
Submatrix ==
    /\ mres.op = "none"
    /\ \E row \in 0..3, col \in 0..3 :
          mres' = [op |-> "submatrix", row |-> row, col |-> col, src |-> mat,
                   value |-> Matrix4_submatrix(mat, row, col)]
    /\ UNCHANGED <<canvas, created, last, enc, mat, nsets, tup>>

\* submatrix(row, col) of the Matrix3 that Matrix4::submatrix returned, a Matrix2
Submatrix3 ==
    /\ mres.op = "submatrix"
    /\ \E row \in 0..2, col \in 0..2 :
          mres' = [op |-> "submatrix3", row |-> row, col |-> col, src |-> mres.value,
                   value |-> Matrix3_submatrix(mres.value, row, col)]
    /\ UNCHANGED <<canvas, created, last, enc, mat, nsets, tup>>

\* matrix.cofactor(row, col) and the minor it is computed from
Cofactor ==
    /\ mres.op = "none"
    /\ \E row \in 0..3, col \in 0..3 :
          mres' = [op |-> "cofactor", row |-> row, col |-> col, src |-> mat,
                   minor |-> Matrix4_minor(mat, row, col),
                   value |-> Matrix4_cofactor(mat, row, col)]
    /\ UNCHANGED <<canvas, created, last, enc, mat, nsets, tup>>

\* cofactor(row, col) of the Matrix3 that Matrix4::submatrix returned
Cofactor3 ==
    /\ mres.op = "submatrix"
    /\ \E row \in 0..2, col \in 0..2 :
          mres' = [op |-> "cofactor3", row |-> row, col |-> col, src |-> mres.value,
                   minor |-> Matrix3_minor(mres.value, row, col),
                   value |-> Matrix3_cofactor(mres.value, row, col)]
    /\ UNCHANGED <<canvas, created, last, enc, mat, nsets, tup>>

\* matrix.determinant()
Determinant ==
    /\ mres.op = "none"
    /\ mres' = [op |-> "determinant", size |-> 4, src |-> mat,
                value |-> Matrix4_determinant(mat)]
    /\ UNCHANGED <<canvas, created, last, enc, mat, nsets, tup>>

\* determinant() of the Matrix3 that Matrix4::submatrix returned
Determinant3 ==
    /\ mres.op = "submatrix"
    /\ mres' = [op |-> "determinant", size |-> 3, src |-> mres.value,
                value |-> Matrix3_determinant(mres.value)]
    /\ UNCHANGED <<canvas, created, last, enc, mat, nsets, tup>>

\* determinant() of the Matrix2 that Matrix3::submatrix returned
Determinant2 ==
    /\ mres.op = "submatrix3"
    /\ mres' = [op |-> "determinant", size |-> 2, src |-> mres.value,
                value |-> Matrix2_determinant(mres.value)]
    /\ UNCHANGED <<canvas, created, last, enc, mat, nsets, tup>>

NextSub ==
    \/ Submatrix \/ Submatrix3 \/ Cofactor \/ Cofactor3
    \/ Determinant \/ Determinant3 \/ Determinant2

SpecSub == InitMat /\ [][NextSub]_vars

-----------------------------------------------------------------------------
(* Tuple4D as a state machine: two tuples are built by new_point and         *)
(* new_vector, and operations are applied, each to the tuple the operation   *)
(* before returned (the first to the first tuple built).                     *)

MaxTupOps == 2

\* the constructor calls of the tests and of main: [fn, x, y, z]
TupleArgs ==
    { [fn |-> "new_point", x |-> RInt(3), y |-> RInt(-2), z |-> RInt(5)],
      [fn |-> "new_vector", x |-> RInt(-2), y |-> RInt(3), z |-> RInt(1)],
      [fn |-> "new_point", x |-> RInt(3), y |-> RInt(2), z |-> RInt(1)],
      [fn |-> "new_point", x |-> RInt(5), y |-> RInt(6), z |-> RInt(7)],
      [fn |-> "new_vector", x |-> RInt(5), y |-> RInt(6), z |-> RInt(7)],
      [fn |-> "new_vector", x |-> RInt(1), y |-> RInt(2), z |-> RInt(3)],
      [fn |-> "new_vector", x |-> RInt(2), y |-> RInt(3), z |-> RInt(4)],
      [fn |-> "new_point", x |-> RInt(1), y |-> RInt(-2), z |-> RInt(3)],
      [fn |-> "new_vector", x |-> RInt(1), y |-> Rat(9, 5), z |-> RInt(0)] }

\* the tuple a constructor call returns
Built(c) ==
    IF c.fn = "new_point" THEN new_point(c.x, c.y, c.z) ELSE new_vector(c.x, c.y, c.z)

\* the scalars a tuple is multiplied by (3.5, 0.5, 0.0) and divided by (2.0)
MulScalars == {Rat(7, 2), Rat(1, 2), RInt(0)}

DivScalars == {RInt(2)}

\* tests::matrix_tuple_product
TestTupleProduct ==
    FromRows(<< <<1, 2, 3, 4>>, <<2, 4, 4, 2>>, <<8, 6, 4, 1>>, <<0, 0, 0, 1>> >>)

\* the matrices a tuple is multiplied by
TupleMatrices == {Matrix4_eye, TestTupleProduct, TestMulB}

InitTup ==
    /\ \E ca \in TupleArgs, cb \in TupleArgs :
          tup = TupCall(ca.fn, Tuple4D(ca.x, ca.y, ca.z, RInt(0)), Built(cb),
                        RInt(0), Matrix4_zeros, "ok", Built(ca), RInt(0), 0)
    /\ canvas = create_canvas(0, 0)
    /\ created = [width |-> 0, height |-> 0]
    /\ last = Call("create_canvas", 0, 0, Black, "ok", Black, <<>>, "untouched", <<>>)
    /\ enc = EncIdle
    /\ mat = Matrix4_zeros
    /\ nsets = 0
    /\ mres = MatIdle

\* an operation can follow: nothing has panicked
TupReady == tup.outcome = "ok" /\ tup.nops < MaxTupOps

\* what the operation returned, for an operation that returns a tuple
TupReturn(op, b, k, m, value) ==
    /\ tup' = TupCall(op, tup.value, b, k, m, "ok", value, RInt(0), tup.nops + 1)
    /\ UNCHANGED <<canvas, created, last, enc, mat, nsets, mres>>

\* what dot or cross returned or that it panicked; res = [panic, value]
TupChecked(op, res, value, scalar) ==
    /\ tup' = TupCall(op, tup.value, tup.b, RInt(0), Matrix4_zeros,
                      IF res.panic THEN "panic" ELSE "ok", value, scalar,
                      tup.nops + 1)
    /\ UNCHANGED <<canvas, created, last, enc, mat, nsets, mres>>

TupAdd ==
    /\ TupReady
    /\ TupReturn("add", tup.b, RInt(0), Matrix4_zeros, Tuple4D_add(tup.value, tup.b))

TupSub ==
    /\ TupReady
    /\ TupReturn("sub", tup.b, RInt(0), Matrix4_zeros, Tuple4D_sub(tup.value, tup.b))

TupNeg ==
    /\ TupReady
    /\ TupReturn("neg", tup.b, RInt(0), Matrix4_zeros, Tuple4D_neg(tup.value))

TupMul ==
    /\ TupReady
    /\ \E k \in MulScalars :
          TupReturn("mul", tup.b, k, Matrix4_zeros, Tuple4D_mul(tup.value, k))

TupDiv ==
    /\ TupReady
    /\ \E k \in DivScalars :
          TupReturn("div", tup.b, k, Matrix4_zeros, Tuple4D_div(tup.value, k))

TupDot ==
    /\ TupReady
    /\ LET res == dot(tup.value, tup.b)
       IN  TupChecked("dot", res, tup.value, res.value)

TupCross ==
    /\ TupReady
    /\ LET res == cross(tup.value, tup.b)
       IN  TupChecked("cross", res, IF res.panic THEN tup.value ELSE res.value, RInt(0))

\* matrix * tuple
TupMulMatrix ==
    /\ TupReady
    /\ \E m \in TupleMatrices :
          TupReturn("mul_matrix", tup.b, RInt(0), m, Matrix4_mul_tuple(m, tup.value))

NextTup ==
    TupAdd \/ TupSub \/ TupNeg \/ TupMul \/ TupDiv \/ TupDot \/ TupCross \/ TupMulMatrix

SpecTup == InitTup /\ [][NextTup]_vars

-----------------------------------------------------------------------------
(* Reading a PPM text back: lines, tokens, decimal numbers.  These are used  *)
(* only to state properties of the text.                                     *)

Max(S) == CHOOSE m \in S : \A x \in S : x <= m

Min(S) == CHOOSE m \in S : \A x \in S : m <= x

\* the k-th smallest element of a set of integers
Kth(S, k) == CHOOSE e \in S : Cardinality({x \in S : x <= e}) = k

\* where the lines of a text end: at each newline, and at the end of a text
\* that does not end with a newline
LineEnds(text) ==
    {i \in 1..Len(text) : text[i] = NL}
        \cup (IF Len(text) > 0 /\ text[Len(text)] # NL THEN {Len(text) + 1} ELSE {})

\* the first character of the line that ends at e
LineStart(text, e) ==
    LET before == {p \in 1..(e - 1) : text[p] = NL}
    IN  IF before = {} THEN 1 ELSE Max(before) + 1

\* the lines of a text: the runs between newlines; a text that ends with a
\* newline has no further (empty) last line
LinesOf(text) ==
    LET ends == LineEnds(text)
    IN  [k \in 1..Cardinality(ends) |->
            LET e == Kth(ends, k) IN SubSeq(text, LineStart(text, e), e - 1)]

IsSeparator(ch) == ch = NL \/ ch = SP

\* where the tokens of a text start
TokenStarts(text) ==
    {i \in 1..Len(text) :
        ~IsSeparator(text[i]) /\ (i = 1 \/ IsSeparator(text[i - 1]))}

\* the last character of the token that starts at s
TokenEnd(text, s) ==
    LET seps == {p \in s..Len(text) : IsSeparator(text[p])}
    IN  IF seps = {} THEN Len(text) ELSE Min(seps) - 1

\* the whitespace-separated tokens of a sequence of characters
TokensOf(text) ==
    LET starts == TokenStarts(text)
    IN  [k \in 1..Cardinality(starts) |->
            LET s == Kth(starts, k) IN SubSeq(text, s, TokenEnd(text, s))]

IsDigit(ch) == \E d \in 0..9 : DigitChars[d + 1] = ch

DigitValue(ch) == CHOOSE d \in 0..9 : DigitChars[d + 1] = ch

RECURSIVE ParseDec(_)
ParseDec(tok) ==
    IF Len(tok) = 0 THEN 0
    ELSE 10 * ParseDec(SubSeq(tok, 1, Len(tok) - 1)) + DigitValue(tok[Len(tok)])

IsDecimal(tok) == Len(tok) > 0 /\ \A i \in 1..Len(tok) : IsDigit(tok[i])

\* the text after its first three lines (the header)
PixelPart(text) ==
    LET p == CHOOSE q \in 1..Len(text) :
                 text[q] = NL /\ Cardinality({k \in 1..q : text[k] = NL}) = 3
    IN  SubSeq(text, p + 1, Len(text))

\* how many tokens each line of the pixel part holds
PixelLineTokens(text) ==
    LET ls == LinesOf(PixelPart(text))
    IN  [k \in 1..Len(ls) |-> Cardinality(TokenStarts(ls[k]))]

RECURSIVE SumTo(_, _)
SumTo(f, k) == IF k = 0 THEN 0 ELSE f[k] + SumTo(f, k - 1)

\* b is round(ch * 255) clamped into [0, 255], ties rounding away from zero,
\* stated without computing the rounding: ch = n/d, y = 255 n / d,
\* b = 0 iff y < 1/2, b = 255 iff y >= 254.5, otherwise b - 1/2 <= y < b + 1/2
IsByteOf(ch, b) ==
    /\ b \in 0..255
    /\ b > 0 => 2 * 255 * ch.n >= (2 * b - 1) * ch.d
    /\ b < 255 => 2 * 255 * ch.n < (2 * b + 1) * ch.d

Channel(color, k) == IF k = 0 THEN color.r ELSE IF k = 1 THEN color.g ELSE color.b

Returned(op) == last.op = op /\ last.outcome = "ok"

-----------------------------------------------------------------------------
(* The claims *)

\* C1: for every canvas reachable by create_canvas and write_pixel calls, no
\* line of the text to_ppm_str returns is longer than 70 characters (the
\* terminating newline not counted).
C1_NoLineOver70 ==
    Returned("to_ppm_str") =>
        LET ls == LinesOf(last.text)
        IN  \A k \in 1..Len(ls) : Len(ls[k]) <= 70

\* to_ppm_str returned a text in which a row was wrapped: it has more lines
\* than the header and one per row, and a line of at least 67 characters
C1_Witness ==
    /\ Returned("to_ppm_str")
    /\ LET ls == LinesOf(last.text)
       IN  /\ Len(ls) > 3 + canvas.height
           /\ \E k \in 1..Len(ls) : Len(ls[k]) >= 67

\* C2: before appending each channel token the encoder wraps exactly when
\* running_count + (digits_in_value + 1) > 70; on a wrap the separator written
\* last is replaced by a newline and the running count becomes the size of the
\* token about to be written; otherwise the token's cost is added to the
\* running count.  A row of 30 three-digit values is broken after its 17th
\* value, leaving 13 values on the next line.
C2_StepRule ==
    enc.pc = "value" =>
        LET v == EncValueNow
            cost == Len(DecStr(v)) + 1
            token == DecStr(v) \o <<SP>>
        IN  IF enc.chars_written + cost > 70
            THEN /\ enc.ppm_str[Len(enc.ppm_str)] = SP
                 /\ enc'.ppm_str = SubSeq(enc.ppm_str, 1, Len(enc.ppm_str) - 1)
                                       \o <<NL>> \o token
                 /\ enc'.chars_written = cost
            ELSE /\ enc'.ppm_str = enc.ppm_str \o token
                 /\ enc'.chars_written = enc.chars_written + cost

AllThreeDigits ==
    \A i \in 1..Len(canvas.data) :
        \A k \in 1..3 : ColorValues(canvas.data[i])[k] >= 100

C2_ThirtyValueRow ==
    (enc.pc = "done" /\ canvas.width = 10 /\ AllThreeDigits) =>
        PixelLineTokens(last.text) =
            [k \in 1..(2 * canvas.height) |-> IF k % 2 = 1 THEN 17 ELSE 13]

C2_ColumnBudget == [][C2_StepRule]_vars /\ []C2_ThirtyValueRow

\* the encoder has just wrapped a line in the second image row
C2_Witness ==
    /\ enc.pc = "value"
    /\ enc.idx >= canvas.width
    /\ ~(enc.idx % canvas.width = 0 /\ enc.ch = 1)
    /\ enc.chars_written \in 2..4
    /\ Len(enc.ppm_str) > 70
    /\ \E p \in (Len(enc.ppm_str) - 4)..(Len(enc.ppm_str) - 2) : enc.ppm_str[p] = NL

\* C3: after the last channel of every image row the trailing separator is
\* replaced with a newline and the running count is reset to zero, whether or
\* not the 70-column budget would have forced a break; so every image row
\* starts on a fresh line and no output line holds values of two image rows.
C3_RowBoundary ==
    /\ (enc.pc \in {"value", "return", "done"} /\ enc.ch = 0 /\ enc.idx > 0
            /\ enc.idx % canvas.width = 0) =>
          /\ enc.ppm_str[Len(enc.ppm_str)] = NL
          /\ enc.chars_written = 0
    /\ (enc.pc = "done" /\ canvas.width > 0) =>
          LET cnt == PixelLineTokens(last.text)
          IN  /\ \A row \in 1..canvas.height :
                    \E k \in 1..Len(cnt) : SumTo(cnt, k) = 3 * canvas.width * row
              /\ SumTo(cnt, Len(cnt)) = 3 * canvas.width * canvas.height

\* a two-row image was encoded whose rows each fit the budget: the break
\* between the rows was made by the row boundary alone
C3_Witness ==
    /\ enc.pc = "done"
    /\ canvas.height = 2
    /\ canvas.width = 5
    /\ PixelLineTokens(last.text) = <<15, 15>>
    /\ \E k \in 1..Len(LinesOf(last.text)) : Len(LinesOf(last.text)[k]) > 50

\* C4: for every canvas, zero-sized ones included, the text to_ppm_str
\* returns ends with a newline.
C4_EndsWithNewline ==
    Returned("to_ppm_str") =>
        /\ Len(last.text) > 0
        /\ last.text[Len(last.text)] = NL

\* to_ppm_str returned the text of a canvas whose last pixel was written
C4_Witness ==
    /\ Returned("to_ppm_str")
    /\ Len(canvas.data) > 1
    /\ canvas.data[Len(canvas.data)] # Black
    /\ last.text[Len(last.text)] = NL

\* C5: the pixel part of the text holds exactly 3*width*height decimal tokens,
\* for every pixel in row-major order its r, g and b channel, each
\* round(channel*255) clamped into [0,255]: above 1.0 gives 255, a negative
\* channel gives 0, and 0.5 gives 128.
C5_PixelTokens ==
    Returned("to_ppm_str") =>
        LET toks == TokensOf(PixelPart(last.text))
        IN  /\ Len(toks) = 3 * canvas.width * canvas.height
            /\ \A t \in 1..Len(toks) :
                  LET color == canvas.data[((t - 1) \div 3) + 1]
                      ch == Channel(color, (t - 1) % 3)
                      tok == toks[t]
                  IN  /\ IsDecimal(tok)
                      /\ tok = DecStr(ParseDec(tok))
                      /\ IsByteOf(ch, ParseDec(tok))
                      /\ (ch.n > ch.d => tok = <<"2", "5", "5">>)
                      /\ (ch.n < 0 => tok = <<"0">>)
                      /\ (ch = Rat(1, 2) => tok = <<"1", "2", "8">>)

\* to_ppm_str returned the text of a canvas that holds a channel above 1.0,
\* a negative channel and a channel of 0.5
C5_Witness ==
    /\ Returned("to_ppm_str")
    /\ \E i, j \in 1..Len(canvas.data) :
          /\ canvas.data[i].r.n > canvas.data[i].r.d
          /\ canvas.data[j].r.n < 0
          /\ canvas.data[j].g = Rat(1, 2)

InRangeCells == {<<x, y>> \in (0..(canvas.width - 1)) \X (0..(canvas.height - 1)) : TRUE}

\* C6: after create_canvas and any sequence of in-range write_pixel calls,
\* read_pixel(x, y) returns the color of the most recent write_pixel to (x, y),
\* or black if (x, y) was never written; a write to one pixel changes no other
\* pixel, nor the width, nor the height.  Stated step by step: a fresh canvas
\* reads black everywhere, an in-range write makes its own pixel read the
\* written color and leaves every other pixel's reading as it was, and no
\* other operation changes any reading.
C6_WriteStep ==
    /\ last.op = "create_canvas" =>
          \A p \in InRangeCells :
              read_pixel(canvas, p[1], p[2]) = [panic |-> FALSE, value |-> Black]
    /\ (last'.op = "write_pixel" /\ InRange(last'.x, last'.y)) =>
          /\ last'.outcome = "ok"
          /\ read_pixel(canvas', last'.x, last'.y) =
                 [panic |-> FALSE, value |-> last'.color]
          /\ \A p \in InRangeCells :
                 p # <<last'.x, last'.y>> =>
                     read_pixel(canvas', p[1], p[2]) = read_pixel(canvas, p[1], p[2])
          /\ canvas'.width = canvas.width
          /\ canvas'.height = canvas.height
    /\ last'.op # "write_pixel" =>
          \A p \in InRangeCells :
              read_pixel(canvas', p[1], p[2]) = read_pixel(canvas, p[1], p[2])
    /\ (last'.op = "read_pixel" /\ InRange(last'.x, last'.y)) =>
          /\ last'.outcome = "ok"
          /\ last'.value = read_pixel(canvas, last'.x, last'.y).value

C6_ReadsLastWrite == [][C6_WriteStep]_vars

\* an in-range write_pixel has just returned on a canvas that holds another
\* written pixel of a different color and a pixel never written
C6_Witness ==
    /\ Returned("write_pixel")
    /\ InRange(last.x, last.y)
    /\ read_pixel(canvas, last.x, last.y).value = last.color
    /\ \E p, q \in InRangeCells :
          /\ p # <<last.x, last.y>>
          /\ read_pixel(canvas, p[1], p[2]).value \notin {Black, last.color}
          /\ read_pixel(canvas, q[1], q[2]).value = Black

\* C7: a write_pixel or read_pixel call whose x is not in [0, width) or whose
\* y is not in [0, height) panics, and reads or modifies no pixel.
C7_OutOfRangePanics ==
    (last.op \in {"write_pixel", "read_pixel"} /\ ~InRange(last.x, last.y)) =>
        last.outcome = "panic"

\* C8: in every state reachable by create_canvas followed by write_pixel,
\* read_pixel, to_ppm_str and to_ppm calls, the number of stored colors is
\* width*height, and width and height are those given at creation.
C8_CanvasInvariant ==
    /\ Len(canvas.data) = canvas.width * canvas.height
    /\ canvas.width = created.width
    /\ canvas.height = created.height

\* to_ppm has returned on a canvas that was written to
C8_Witness ==
    /\ Returned("to_ppm")
    /\ \E i \in 1..Len(canvas.data) : canvas.data[i] # Black
    /\ Len(canvas.data) = 6

\* |q| < 1e-5, the tolerance written out
BelowTolerance(q) == Abs(q.n) * 100000 < q.d

\* C9: Matrix4::inverse never panics; it returns None exactly when the
\* determinant is tolerance-equal to zero (|det| < 1e-5) and a present matrix
\* in every other case.  (A present result has all 16 cells defined: no cell
\* is the result of a division by zero.)
C9_InverseNoneIffSingular ==
    mres.op = "inverse" =>
        LET det == Matrix4_determinant(mat)
        IN  /\ mres.present <=> ~(det.n = 0 \/ (Abs(det.n) < det.d /\ BelowTolerance(det)))
            /\ mres.present =>
                  /\ DOMAIN mres.value = 0..3
                  /\ \A i \in 0..3 :
                        /\ DOMAIN mres.value[i] = 0..3
                        /\ \A j \in 0..3 : mres.value[i][j].d > 0

\* inverse returned None for a matrix whose determinant is not zero but
\* tolerance-equal to zero
C9_Witness ==
    /\ mres.op = "inverse"
    /\ ~mres.present
    /\ Matrix4_determinant(mat).n # 0

\* C10 as stated: for all Matrix4 M with non-zero determinant, inverse(M) is
\* present and M * inverse(M) equals the identity under the tolerance equality.
C10_NonZeroDeterminant ==
    (mres.op = "inverse" /\ Matrix4_determinant(mat).n # 0) =>
        /\ mres.present
        /\ Matrix4_eq(Matrix4_mul(mat, mres.value), Matrix4_eye)

\* C10, amended: for all Matrix4 M whose determinant is not tolerance-equal to
\* zero (|det| >= 1e-5), inverse(M) is present, M * inverse(M) equals the
\* identity under the tolerance equality, (A*M) * inverse(M) equals A (for
\* the matrices A of the tests), and inverse[j][i] = cofactor(i,j) / determinant.
C10_InverseTimesMatrix ==
    LET det == Matrix4_determinant(mat)
    IN  (mres.op = "inverse" /\ det.n # 0 /\ ~(Abs(det.n) < det.d /\ BelowTolerance(det))) =>
            /\ mres.present
            /\ Matrix4_eq(Matrix4_mul(mat, mres.value), Matrix4_eye)
            /\ \A A \in {TestMulA, TestDeterminant} :
                  Matrix4_eq(Matrix4_mul(Matrix4_mul(A, mat), mres.value), A)
            /\ \A i \in 0..3 : \A j \in 0..3 :
                  RMul(mres.value[j][i], det) = Matrix4_cofactor(mat, i, j)

\* inverse returned a matrix for a matrix that is not symmetric and whose
\* determinant is neither 1 nor -1
C10_Witness ==
    /\ mres.op = "inverse"
    /\ mres.present
    /\ mat # Matrix4_transpose(mat)
    /\ Abs(Matrix4_determinant(mat).n) > 1
    /\ nsets > 0

\* C11 as stated: for all Matrix4 M with non-zero determinant,
\* inverse(inverse(M)) is present and equals M under the tolerance equality.
C11_InverseTwiceNonZeroDeterminant ==
    Matrix4_determinant(mat).n # 0 =>
        /\ mres.op = "inverse" => mres.present
        /\ mres.op = "inverse_inverse" =>
              /\ mres.present
              /\ Matrix4_eq(mres.value, mat)

\* 1e-5 <= |q| <= 1e5, the tolerance and its reciprocal written out
WithinInvertibleRange(q) ==
    /\ q.n # 0
    /\ ~(Abs(q.n) < q.d /\ BelowTolerance(q))
    /\ (Abs(q.n) \div q.d < 100000 \/ Abs(q.n) = 100000 * q.d)

\* C11, amended: for all Matrix4 M whose determinant d has 1e-5 <= |d| <= 1e5
\* (so that neither d nor the determinant 1/d of inverse(M) is
\* tolerance-equal to zero), inverse(M) and inverse(inverse(M)) are present
\* and inverse(inverse(M)) equals M under the tolerance equality; when
\* |d| > 1e5, inverse(inverse(M)) is None.
C11_InverseOfInverse ==
    LET det == Matrix4_determinant(mat)
    IN  /\ (mres.op = "inverse" /\ WithinInvertibleRange(det)) => mres.present
        /\ mres.op = "inverse_inverse" =>
              /\ mres.present <=> WithinInvertibleRange(det)
              /\ mres.present => Matrix4_eq(mres.value, mat)

\* inverse of the inverse returned a matrix for a matrix that is not
\* symmetric, has a cell that is not an integer, and whose determinant is not
\* 1 or -1
C11_Witness ==
    /\ mres.op = "inverse_inverse"
    /\ mres.present
    /\ mat # Matrix4_transpose(mat)
    /\ \E i \in 0..3, j \in 0..3 : mat[i][j].d > 1
    /\ Matrix4_determinant(mat) \notin {RInt(1), RInt(-1)}

\* r = p + q, r = p * q and |q| < 1e-5, written out on numerators and
\* denominators
SumIs(r, p, q) == r.n * (p.d * q.d) = r.d * (p.n * q.d + q.n * p.d)

ProductIs(r, p, q) == r.n * (p.d * q.d) = r.d * (p.n * q.n)

NearZero(q) == Abs(q.n) < q.d /\ BelowTolerance(q)

Components == {"x", "y", "z", "w"}

\* C12 as stated: every Tuple4D value has w exactly 1.0 or 0.0, for every
\* tuple obtained from new_point, new_vector and the tuple and matrix
\* operations.
C12_WIsZeroOrOne ==
    tup.op # "none" =>
        /\ tup.value.w \in {RInt(0), RInt(1)}
        /\ tup.b.w \in {RInt(0), RInt(1)}

\* C12, amended: every tuple new_point returns has w exactly 1.0 (and the
\* given x, y, z) and every tuple new_vector returns has w exactly 0.0; the
\* operations do not keep w in {0, 1}: they compute the w of their result
\* like x, y and z (a.w + b.w, a.w - b.w, -a.w, a.w * k, a.w / k), and only
\* cross returns w = 0 by construction.
C12_ConstructedW ==
    /\ tup.op = "new_point" =>
          /\ tup.value = [x |-> tup.a.x, y |-> tup.a.y, z |-> tup.a.z, w |-> RInt(1)]
          /\ is_point(tup.value) /\ ~is_vector(tup.value)
    /\ tup.op = "new_vector" =>
          /\ tup.value = [x |-> tup.a.x, y |-> tup.a.y, z |-> tup.a.z, w |-> RInt(0)]
          /\ is_vector(tup.value) /\ ~is_point(tup.value)
    /\ tup.op # "none" => tup.b.w \in {RInt(0), RInt(1)}
    /\ tup.op = "add" => SumIs(tup.value.w, tup.a.w, tup.b.w)
    /\ tup.op = "sub" => SumIs(tup.a.w, tup.value.w, tup.b.w)
    /\ tup.op = "neg" => SumIs(RInt(0), tup.value.w, tup.a.w)
    /\ tup.op = "mul" => ProductIs(tup.value.w, tup.a.w, tup.k)
    /\ tup.op = "div" => ProductIs(tup.a.w, tup.value.w, tup.k)
    /\ (tup.op = "cross" /\ tup.outcome = "ok") => tup.value.w = RInt(0)

\* a point built by new_point was negated: the result has w = -1
C12_Witness ==
    /\ tup.op = "neg"
    /\ tup.nops = 1
    /\ tup.a.w = RInt(1)
    /\ tup.value.w = RInt(-1)

\* C13: dot and cross panic whenever either operand is not a vector (w not
\* tolerance-equal to 0) and never when both are vectors; for two vectors dot
\* returns x1*x2 + y1*y2 + z1*z2 and cross returns the vector (w = 0) of the
\* standard formula.  The sums are stated over the common denominator da * db
\* of the operands' coordinates.
C13_DotCross ==
    tup.op \in {"dot", "cross"} =>
        LET a == tup.a
            b == tup.b
            da == a.x.d * a.y.d * a.z.d
            db == b.x.d * b.y.d * b.z.d
            ax == a.x.n * (da \div a.x.d)
            ay == a.y.n * (da \div a.y.d)
            az == a.z.n * (da \div a.z.d)
            bx == b.x.n * (db \div b.x.d)
            by == b.y.n * (db \div b.y.d)
            bz == b.z.n * (db \div b.z.d)
            IsValue(q, n) == q.n * (da * db) = q.d * n
        IN  /\ tup.outcome = "panic" <=> ~(NearZero(a.w) /\ NearZero(b.w))
            /\ (tup.op = "dot" /\ tup.outcome = "ok") =>
                  IsValue(tup.scalar, ax * bx + ay * by + az * bz)
            /\ (tup.op = "cross" /\ tup.outcome = "ok") =>
                  /\ tup.value.w = RInt(0)
                  /\ IsValue(tup.value.x, ay * bz - az * by)
                  /\ IsValue(tup.value.y, az * bx - ax * bz)
                  /\ IsValue(tup.value.z, ax * by - ay * bx)

\* cross returned a vector that is not zero for a left operand that an
\* operation returned and that has a coordinate that is not an integer
C13_Witness ==
    /\ tup.op = "cross"
    /\ tup.outcome = "ok"
    /\ tup.nops = 2
    /\ tup.a.x.d > 1
    /\ tup.value.x.n # 0

\* C14: +, -, unary - and scalar * are component-wise including w, so the
\* kind of a result follows w arithmetic: point + vector is a point, point -
\* point is a vector, point - vector is a point, vector - vector is a vector
\* (as classified by is_point / is_vector).
C14_ComponentWise ==
    LET a == tup.a
        b == tup.b
        r == tup.value
    IN  /\ tup.op = "add" =>
              /\ \A c \in Components : SumIs(r[c], a[c], b[c])
              /\ (is_point(a) /\ is_vector(b)) => (is_point(r) /\ ~is_vector(r))
        /\ tup.op = "sub" =>
              /\ \A c \in Components : SumIs(a[c], r[c], b[c])
              /\ (is_point(a) /\ is_point(b)) => (is_vector(r) /\ ~is_point(r))
              /\ (is_point(a) /\ is_vector(b)) => (is_point(r) /\ ~is_vector(r))
              /\ (is_vector(a) /\ is_vector(b)) => (is_vector(r) /\ ~is_point(r))
        /\ tup.op = "neg" =>
              \A c \in Components : r[c].n = -a[c].n /\ r[c].d = a[c].d
        /\ tup.op = "mul" =>
              \A c \in Components : ProductIs(r[c], a[c], tup.k)

\* a point was subtracted from the point that an operation returned
C14_Witness ==
    /\ tup.op = "sub"
    /\ tup.nops = 2
    /\ is_point(tup.a) /\ is_point(tup.b)
    /\ is_vector(tup.value)
    /\ tup.value.x.n # 0

\* C19: matrix * tuple is the matrix-vector product, (M * t)[i] = the sum
\* over j of M[i][j] * t[j] with t = (x, y, z, w); the identity returns the
\* tuple; a matrix whose last row is (0, 0, 0, 1) maps points to points.  The
\* sums are stated over the common denominator dt of t's components, for the
\* integer matrices of TupleMatrices.
C19_MatrixTimesTuple ==
    tup.op = "mul_matrix" =>
        LET t == tup.a
            M == tup.m
            dt == t.x.d * t.y.d * t.z.d * t.w.d
            tn == << t.x.n * (dt \div t.x.d), t.y.n * (dt \div t.y.d),
                     t.z.n * (dt \div t.z.d), t.w.n * (dt \div t.w.d) >>
            row(i) == M[i][0].n * tn[1] + M[i][1].n * tn[2]
                        + M[i][2].n * tn[3] + M[i][3].n * tn[4]
            IsValue(q, n) == q.n * dt = q.d * n
        IN  /\ \A i \in 0..3 : \A j \in 0..3 : M[i][j].d = 1
            /\ IsValue(tup.value.x, row(0))
            /\ IsValue(tup.value.y, row(1))
            /\ IsValue(tup.value.z, row(2))
            /\ IsValue(tup.value.w, row(3))
            /\ M = Matrix4_eye => tup.value = t
            /\ (M[3] = Matrix4_eye[3] /\ is_point(t)) => is_point(tup.value)

\* tests::matrix_tuple_product's matrix has mapped a point that an operation
\* returned to another point
C19_Witness ==
    /\ tup.op = "mul_matrix"
    /\ tup.m = TestTupleProduct
    /\ tup.nops = 2
    /\ is_point(tup.a)
    /\ is_point(tup.value)
    /\ tup.value # tup.a

\* the permutations of 0..(n - 1) and their signs
PermutationsOf(n) ==
    {p \in [0..(n - 1) -> 0..(n - 1)] : \A i, j \in 0..(n - 1) : i # j => p[i] # p[j]}

Sign(p, n) ==
    IF Cardinality({ij \in (0..(n - 1)) \X (0..(n - 1)) :
                        ij[1] < ij[2] /\ p[ij[1]] > p[ij[2]]}) % 2 = 0
    THEN 1 ELSE -1

\* the sum of f[p] over the elements p of a finite set S
RECURSIVE SumOver(_, _)
SumOver(S, f) ==
    IF S = {} THEN 0
    ELSE LET p == CHOOSE q \in S : TRUE
         IN  f[p] + SumOver(S \ {p}, f)

\* the permutation-sum (Leibniz) determinant of an n x n matrix of integers e
PermutationSum(e, n) ==
    LET term == [p \in PermutationsOf(n) |->
                    Sign(p, n) * e[0][p[0]] * e[1][p[1]]
                        * (IF n > 2 THEN e[2][p[2]] ELSE 1)
                        * (IF n > 3 THEN e[3][p[3]] ELSE 1)]
    IN  SumOver(PermutationsOf(n), term)

\* the largest denominator of an n x n matrix; every matrix of the model has
\* entries whose denominators divide it
CommonDenominator(m, n) ==
    Max({m[i][j].d : i \in 0..(n - 1), j \in 0..(n - 1)})

Power(k, n) == IF n = 2 THEN k * k ELSE IF n = 3 THEN k * k * k ELSE k * k * k * k

\* C15: the Matrix2 determinant is a*d - b*c; the Matrix3 and Matrix4
\* determinants (row-0 cofactor expansion) equal the permutation-sum
\* determinant; a cofactor is the minor, negated exactly when row + col is odd;
\* the determinant of the 4x4 identity is 1.  Stated on integers: a matrix with
\* entries n/d is compared through its entries scaled by the common
\* denominator K, det * K^size = PermutationSum(scaled entries).
C15_Determinant ==
    /\ mres.op = "determinant" =>
          LET m == mres.src
              n == mres.size
              K == CommonDenominator(m, n)
              e == [i \in 0..(n - 1) |-> [j \in 0..(n - 1) |->
                        m[i][j].n * (K \div m[i][j].d)]]
          IN  /\ \A i, j \in 0..(n - 1) : K % m[i][j].d = 0
              /\ mres.value.n * Power(K, n) = mres.value.d * PermutationSum(e, n)
              /\ n = 2 => mres.value.n * (K * K) =
                              mres.value.d * (e[0][0] * e[1][1] - e[0][1] * e[1][0])
              /\ m = Matrix4_eye => mres.value = RInt(1)
    /\ mres.op \in {"cofactor", "cofactor3"} =>
          /\ mres.value.d = mres.minor.d
          /\ mres.value.n = IF (mres.row + mres.col) % 2 = 1 THEN -mres.minor.n
                             ELSE mres.minor.n

\* tests::determinant: the determinant of its matrix is -4071
C15_Witness ==
    /\ mres.op = "determinant"
    /\ mres.size = 4
    /\ mres.src = TestDeterminant
    /\ mres.value = RInt(-4071)

\* C16: Matrix4 * Matrix4 is the standard product, (A * B)[i][j] = the sum
\* over k of A[i][k] * B[k][j]; M * eye = M; the operands are not modified.
\* The sums are stated over the common denominator of A's row i, for the
\* integer right operands of MulOperands.
C16_MatrixProduct ==
    mres.op = "mul" =>
        LET A == mres.src
            B == mres.rhs
            da(i) == A[i][0].d * A[i][1].d * A[i][2].d * A[i][3].d
            an(i, k) == A[i][k].n * (da(i) \div A[i][k].d)
        IN  /\ A = mat
            /\ \A k, j \in 0..3 : B[k][j].d = 1
            /\ \A i, j \in 0..3 :
                  mres.value[i][j].n * da(i) =
                      mres.value[i][j].d * (an(i, 0) * B[0][j].n + an(i, 1) * B[1][j].n
                                            + an(i, 2) * B[2][j].n + an(i, 3) * B[3][j].n)
            /\ B = Matrix4_eye => mres.value = A

\* tests::matrix_mult: the product of its two matrices
C16_Witness ==
    /\ mres.op = "mul"
    /\ mat = TestMatrixMult
    /\ mres.rhs = TestMulB
    /\ mres.value = FromRows(<< <<20, 22, 50, 48>>, <<44, 54, 114, 108>>,
                                <<40, 58, 110, 102>>, <<16, 26, 46, 42>> >>)

\* C17: transpose(M) has T[i][j] = M[j][i], transpose(transpose(M)) == M,
\* and M is unchanged by the call.
C17_Transpose ==
    mres.op = "transpose" =>
        /\ mres.src = mat
        /\ \A i, j \in 0..3 : mres.value[i][j] = mat[j][i]
        /\ Matrix4_transpose(mres.value) = mat
        /\ Matrix4_eq(Matrix4_transpose(mres.value), mat)

\* a matrix that is not symmetric after an assignment to one cell was transposed
C17_Witness ==
    /\ mres.op = "transpose"
    /\ nsets = 1
    /\ mres.value # mat
    /\ mat[2][1] = Rat(3, 2)

\* the source row (column) of cell k of a submatrix that leaves out `skipped`
SourceOf(k, skipped) == IF k < skipped THEN k ELSE k + 1

\* C20: submatrix(row, col) of a Matrix4 (Matrix3) is the Matrix3 (Matrix2)
\* whose cell [i'][j'] is the source's cell [i][j] with i = i' if i' < row else
\* i' + 1 and j = j' if j' < col else j' + 1, for row, col in 0..N-1; the
\* source is unchanged.
C20_Submatrix ==
    /\ mres.op = "submatrix" =>
          /\ mres.src = mat
          /\ DOMAIN mres.value = 0..2
          /\ \A i, j \in 0..2 :
                mres.value[i][j] = mat[SourceOf(i, mres.row)][SourceOf(j, mres.col)]
    /\ mres.op = "submatrix3" =>
          /\ DOMAIN mres.src = 0..2
          /\ DOMAIN mres.value = 0..1
          /\ \A i, j \in 0..1 :
                mres.value[i][j] = mres.src[SourceOf(i, mres.row)][SourceOf(j, mres.col)]

\* tests::submatrix: submatrix(3, 1) of its matrix
C20_Witness ==
    /\ mres.op = "submatrix"
    /\ mat = TestMulB
    /\ mres.row = 3 /\ mres.col = 1
    /\ mres.value[0] = (0 :> RInt(-2) @@ 1 :> RInt(2) @@ 2 :> RInt(3))
    /\ mres.value[1] = (0 :> RInt(3) @@ 1 :> RInt(1) @@ 2 :> RInt(-1))
    /\ mres.value[2] = (0 :> RInt(4) @@ 1 :> RInt(6) @@ 2 :> RInt(5))

\* C18: to_ppm returns Ok only after the file was created and the complete
\* to_ppm_str text was written and flushed; a failure of File::create, of
\* write_all or of flush is returned as an error value (never swallowed, never
\* a panic): whenever the file was not created or does not hold the complete
\* text, the call has returned an error; the canvas is unchanged by the call.
\* (to_ppm_str's Err, which to_ppm would return as an error too, cannot
\* occur: see FailPoints.)
C18_Returned ==
    last.op = "to_ppm" =>
        /\ last.outcome \in {"ok", "err"}
        /\ last.outcome = "ok" <=>
              (last.file_state = "created" /\ last.file = to_ppm_str(canvas))

C18_ToPpmResult ==
    /\ []C18_Returned
    /\ [][last'.op = "to_ppm" => canvas' = canvas]_vars

\* to_ppm returned an error on a canvas that was written to, after the file
\* was created and a part of the text had reached it
C18_Witness ==
    /\ last.op = "to_ppm"
    /\ last.outcome = "err"
    /\ last.file_state = "created"
    /\ Len(last.file) > 0
    /\ \E i \in 1..Len(canvas.data) : canvas.data[i] # Black

\* the number of characters after the last newline of a text
OpenLineLength(text) ==
    LET nls == {p \in 1..Len(text) : text[p] = NL}
    IN  IF nls = {} THEN Len(text) ELSE Len(text) - Max(nls)

\* the loop is about to pop the last character of the text: the inner loop
\* wraps before the value it is about to write, or a row ends
EncPops ==
    \/ enc.pc = "value" /\ enc.chars_written + Len(DecStr(EncValueNow)) + 1 > 70
    \/ enc.pc = "row_end" /\ (enc.idx + 1) % canvas.width = 0

\* C21: at every iteration of to_ppm_str's pixel loop (before each value,
\* before the row-end test, and when the loop is left) chars_written equals
\* the number of characters on the current, not yet terminated output line,
\* the trailing separator counted.
C21_CountIsOpenLine ==
    enc.pc \in {"value", "row_end", "return", "done"} =>
        enc.chars_written = OpenLineLength(enc.ppm_str)

\* C21: whenever a wrap or a row-end break pops the last character of the
\* text, that character is the separator space written after the preceding
\* channel token (a digit stands before it), and the newline takes its place.
C21_PopStep ==
    EncPops =>
        LET n == Len(enc.ppm_str)
        IN  /\ n > 1
            /\ enc.ppm_str[n] = SP
            /\ IsDigit(enc.ppm_str[n - 1])
            /\ enc.chars_written >= 2
            /\ SubSeq(enc'.ppm_str, 1, n) = Append(SubSeq(enc.ppm_str, 1, n - 1), NL)

C21_Accounting == []C21_CountIsOpenLine /\ [][C21_PopStep]_vars

\* the inner loop is about to wrap in the middle of a pixel: the open line
\* holds more than 66 characters and the value to write is not a pixel's first
C21_Witness ==
    /\ enc.pc = "value"
    /\ enc.ch > 0
    /\ enc.chars_written + Len(DecStr(EncValueNow)) + 1 > 70
    /\ OpenLineLength(enc.ppm_str) > 66

=============================================================================
